---- MODULE Spec2Model ----
(***************************************************************************)
(* A model of the YouTube tracker: the collector (src/fetch_stats.py),     *)
(* which polls the statistics API in batches and merges one snapshot row   *)
(* per video and day into data/history.csv, and the aggregations of the    *)
(* dashboard (src/app.py) over that table.                                 *)
(*                                                                         *)
(* A str of the collector is a sequence of characters, so that the        *)
(* references of inputs/videos.csv are parsed as the code parses them; in  *)
(* the dashboard's tables a video identifier is a natural, ordered as the  *)
(* strings are.  A date 'YYYY-MM-DD' is its day number.  A snapshot row    *)
(* carries its key (date, video_id) and the counter views; the other       *)
(* counters and the metadata columns go through the same code paths as     *)
(* views and are not part of any key.                                      *)
(***************************************************************************)
EXTENDS Integers, Sequences, FiniteSets, TLC

\* ------------------------------------------------------------- bounds
\* Days the collector's clock can show: 1..MaxDay.
MaxDay == 2
\* Collector runs in one behaviour.
MaxRuns == 2
\* Identifiers per API call.  The source calls chunk(video_ids, 25); the
\* model scales it down, so that two identifiers already make two batches.
BatchSize == 1

\* ------------------------------------------------------ fetch_stats.py
\* The raw statistics.viewCount of an item: absent (<<>>) or a number.
RawCounts == {<<>>, <<1>>}

\* The length of a video identifier: the {11} of the patterns.
IdLen == 11

\* A str is a sequence of characters.  The characters of the model, in
\* code-point order.
Digits == <<"0", "1", "2", "3", "4", "5", "6", "7", "8", "9">>
Upper ==
    <<"A", "B", "C", "D", "E", "F", "G", "H", "I", "J", "K", "L", "M",
      "N", "O", "P", "Q", "R", "S", "T", "U", "V", "W", "X", "Y", "Z">>
Lower ==
    <<"a", "b", "c", "d", "e", "f", "g", "h", "i", "j", "k", "l", "m",
      "n", "o", "p", "q", "r", "s", "t", "u", "v", "w", "x", "y", "z">>
CodeOrder ==
    <<" ", "&", "-", ".", "/">> \o Digits \o <<":", "=", "?">> \o Upper \o
    <<"_">> \o Lower

Range(s) == {s[i] : i \in 1..Len(s)}

\* The rank of each character in code-point order.
Ord ==
    [c \in Range(CodeOrder) |->
        CHOOSE i \in 1..Len(CodeOrder) : CodeOrder[i] = c]

\* a < b on str, the order sort_values gives an object column: decided at
\* the first position where they differ, a proper prefix being smaller.
StrLess(a, b) ==
    LET n == IF Len(a) < Len(b) THEN Len(a) ELSE Len(b)
        differ == {i \in 1..n : a[i] # b[i]}
    IN IF differ = {} THEN Len(a) < Len(b)
       ELSE LET k == CHOOSE i \in differ : \A j \in differ : i <= j
            IN Ord[a[k]] < Ord[b[k]]

\* The character class [A-Za-z0-9_-].
IdChars == Range(Upper) \cup Range(Lower) \cup Range(Digits) \cup {"_", "-"}

RECURSIVE lstrip(_)
lstrip(s) == IF s # <<>> /\ Head(s) = " " THEN lstrip(Tail(s)) ELSE s

RECURSIVE rstrip(_)
rstrip(s) ==
    IF s # <<>> /\ s[Len(s)] = " " THEN rstrip(SubSeq(s, 1, Len(s) - 1))
    ELSE s

\* str.strip()
strip(s) == rstrip(lstrip(s))

\* re.fullmatch(r"[A-Za-z0-9_-]{11}", s)
fullmatch_id(s) == Len(s) = IdLen /\ \A i \in 1..Len(s) : s[i] \in IdChars

\* The literal each pattern of _YT_PATTERNS starts with, in the list's
\* order; each is followed by the group ([A-Za-z0-9_-]{11}).
YT_PATTERNS ==
    << <<"v", "=">>,
       <<"y", "o", "u", "t", "u", ".", "b", "e", "/">>,
       <<"s", "h", "o", "r", "t", "s", "/">>,
       <<"e", "m", "b", "e", "d", "/">> >>

\* The pattern matches s at position p.
MatchesAt(lit, s, p) ==
    /\ p + Len(lit) + IdLen - 1 <= Len(s)
    /\ SubSeq(s, p, p + Len(lit) - 1) = lit
    /\ fullmatch_id(SubSeq(s, p + Len(lit), p + Len(lit) + IdLen - 1))

\* re.search(p, s): the group of the leftmost match, <<>> for no match.
search(lit, s) ==
    LET at == {p \in 1..Len(s) : MatchesAt(lit, s, p)}
    IN IF at = {} THEN <<>>
       ELSE LET p == CHOOSE q \in at : \A r \in at : q <= r
            IN <<SubSeq(s, p + Len(lit), p + Len(lit) + IdLen - 1)>>

\* extract_video_id: Optional[str] as a sequence of length <= 1.
extract_video_id(url_or_id) ==
    LET s == strip(url_or_id)
        hits == {k \in 1..Len(YT_PATTERNS) : search(YT_PATTERNS[k], s) # <<>>}
    IN IF fullmatch_id(s) THEN <<s>>
       ELSE IF hits = {} THEN <<>>
       ELSE search(YT_PATTERNS[CHOOSE k \in hits : \A j \in hits : k <= j], s)

\* inputs/videos.csv as pd.read_csv takes it: the names of the header line
\* and the cells of the rows, as written.  No column at all is a file
\* without a line, on which read_csv raises EmptyDataError.
Csv(columns, rows) == [columns |-> columns, rows |-> rows]

VideoName == <<"v", "i", "d", "e", "o">>

\* df["video"] after the rename: the column named video, or else the first.
video_column(f) ==
    LET named == {k \in 1..Len(f.columns) : f.columns[k] = VideoName}
    IN IF named = {} THEN 1 ELSE CHOOSE k \in named : \A j \in named : k <= j

\* Cells read_csv reads as NaN: two of its default na_values.
NaValues == {<<>>, <<"N", "A">>}

\* Every literal of at most this many digits is an int64.
Int64Digits == 18

Unsigned(s) == IF s # <<>> /\ Head(s) = "-" THEN Tail(s) ELSE s

\* A cell the parser converts to int64: digits behind an optional minus
\* sign, blanks around it ignored.
IsInteger(cell) ==
    LET d == Unsigned(strip(cell))
    IN d # <<>> /\ Len(d) <= Int64Digits /\ Range(d) \subseteq Range(Digits)

RECURSIVE strip_zeros(_)
strip_zeros(d) ==
    IF Len(d) > 1 /\ Head(d) = "0" THEN strip_zeros(Tail(d)) ELSE d

\* str(int(cell)): no blanks, no leading zeros, no minus sign on zero.
int_str(cell) ==
    LET s == strip(cell)
        d == strip_zeros(Unsigned(s))
    IN IF s # <<>> /\ Head(s) = "-" /\ d # <<"0">> THEN <<"-">> \o d ELSE d

\* str(float(cell)) of an integer literal.
float_str(cell) ==
    LET s == strip(cell)
    IN (IF s # <<>> /\ Head(s) = "-" THEN <<"-">> ELSE <<>>) \o
       strip_zeros(Unsigned(s)) \o <<".", "0">>

RECURSIVE dropna(_)
dropna(col) ==
    IF col = <<>> THEN <<>>
    ELSE (IF Head(col) \in NaValues THEN <<>> ELSE <<Head(col)>>) \o
         dropna(Tail(col))

\* df["video"].dropna().astype(str): read_csv has inferred the column's
\* dtype.  A column of integer literals is int64, or float64 when it also
\* has a NaN; any other column keeps its cells as written.
video_strings(f) ==
    LET k == video_column(f)
        col == [i \in 1..Len(f.rows) |-> f.rows[i][k]]
        present == dropna(col)
    IN IF present = <<>> \/ \E i \in 1..Len(present) : ~IsInteger(present[i])
       THEN present
       ELSE IF Len(present) = Len(col)
       THEN [i \in 1..Len(present) |-> int_str(present[i])]
       ELSE [i \in 1..Len(present) |-> float_str(present[i])]

RECURSIVE resolve_all(_)
\* The loop of read_video_ids: the identifiers that resolve, in input order.
resolve_all(refs) ==
    IF refs = <<>> THEN <<>>
    ELSE extract_video_id(Head(refs)) \o resolve_all(Tail(refs))

RECURSIVE dedupe_keep_first(_)
\* list(dict.fromkeys(ids)): each identifier once, at its first position.
dedupe_keep_first(ids) ==
    IF ids = <<>> THEN <<>>
    ELSE LET init == dedupe_keep_first(SubSeq(ids, 1, Len(ids) - 1))
             x == ids[Len(ids)]
         IN IF \E i \in 1..Len(init) : init[i] = x THEN init
            ELSE Append(init, x)

\* read_video_ids on a file that exists and has a header line.
read_video_ids(f) == dedupe_keep_first(resolve_all(video_strings(f)))

\* ------------------------------------------- the collector's input files
Repeat(c, n) == [i \in 1..n |-> c]

\* Identifiers of the model: one character IdLen times, and one that
\* reads as a number with leading zeros.
IdOf(c) == Repeat(c, IdLen)
LeadingZeroId == Repeat("0", IdLen - 1) \o <<"1">>

WatchUrl == <<"w", "a", "t", "c", "h", "?">> \o YT_PATTERNS[1]
UrlName == <<"u", "r", "l">>
NoteName == <<"n", "o", "t", "e">>

\* A file with these column names whose k-th column holds refs.
MakeFile(columns, k, refs) ==
    Csv(columns,
        [i \in 1..Len(refs) |->
            [j \in 1..Len(columns) |-> IF j = k THEN refs[i] ELSE <<"x">>]])

\* The contents inputs/videos.csv can have beside the collector's runs.
InputChoices ==
    { MakeFile(<<VideoName>>, 1,
               << IdOf("b"), <<"/">>, YT_PATTERNS[1] \o IdOf("a"),
                  IdOf("b") >>),
      MakeFile(<<UrlName>>, 1, << <<"a">> >>),
      Csv(<<>>, <<>>) }

\* Header lines: the references are in the column named video, or else in
\* the first one.
Layouts ==
    { [columns |-> <<VideoName>>, at |-> 1],
      [columns |-> <<UrlName>>, at |-> 1],
      [columns |-> <<NoteName, VideoName>>, at |-> 2] }

\* The most pieces of a reference, and the most references of a file.
MaxPieces == 4
MaxRefs == 3

\* What a reference is put together from.
Pieces ==
    { IdOf("a"), IdOf("b"), IdOf("1"), LeadingZeroId,
      <<"a">>, <<"0">>, <<" ">>, <<"/">> } \cup Range(YT_PATTERNS)

RECURSIVE Concat(_)
Concat(ps) == IF ps = <<>> THEN <<>> ELSE Head(ps) \o Concat(Tail(ps))

\* The references of up to n pieces, without the digit strings that are
\* no int64.
Texts(n) ==
    LET all == UNION {{Concat(ps) : ps \in [1..k -> Pieces]} : k \in 0..n}
    IN {t \in all :
           Range(strip(t)) \subseteq Range(Digits) => Len(strip(t)) <= Int64Digits}

\* The references of the files with several rows.
CoreRefs ==
    << IdOf("a"), WatchUrl \o IdOf("a"), YT_PATTERNS[2] \o IdOf("b"),
       <<"a">>, <<"N", "A">>, LeadingZeroId, IdOf("1") >>

RefLists(n) == UNION {[1..k -> Range(CoreRefs)] : k \in 0..n}

\* The files read_video_ids is tried on: one reference of any text, or
\* several references under any header line, or no line at all.
ReadInputs(pieces, refs) ==
    {MakeFile(<<VideoName>>, 1, <<t>>) : t \in Texts(pieces)} \cup
    {MakeFile(l.columns, l.at, r) : l \in Layouts, r \in RefLists(refs)}
    \cup {Csv(<<>>, <<>>)}

RECURSIVE chunk(_, _)
\* chunk(lst, n): consecutive slices of n elements, the last one shorter.
chunk(lst, n) ==
    IF lst = <<>> THEN <<>>
    ELSE IF Len(lst) <= n THEN <<lst>>
    ELSE <<SubSeq(lst, 1, n)>> \o chunk(SubSeq(lst, n + 1, Len(lst)), n)

\* A schedule that waits 2 seconds again before the third attempt.
backoff_short == <<0, 2, 2>>

\* backoff = [0, 2, 5]
backoff == <<0, 2, 5>>

\* What the API can answer for one requested identifier: no item (a video
\* it does not know), or one item with some viewCount.
ItemChoices ==
    {[present |-> FALSE, viewCount |-> <<>>]} \cup
    {[present |-> TRUE, viewCount |-> c] : c \in RawCounts}

RECURSIVE items_of(_, _)
\* data.get("items", []): one item per requested identifier the API knows.
items_of(batch, f) ==
    IF batch = <<>> THEN <<>>
    ELSE LET n == Len(batch)
             init == items_of(SubSeq(batch, 1, n - 1), f)
         IN IF f[n].present
            THEN Append(init, [id |-> batch[n], viewCount |-> f[n].viewCount])
            ELSE init

Responses(batch) ==
    {items_of(batch, f) : f \in [1..Len(batch) -> ItemChoices]}

\* _to_int: int(x), 0 when x is missing or unparsable.
to_int(x) == IF x = <<>> THEN 0 ELSE x[1]

\* The row main builds for one item.
make_row(it, day) ==
    [date |-> day, video_id |-> it.id, views |-> to_int(it.viewCount)]

rows_of(items, day) == [i \in 1..Len(items) |-> make_row(items[i], day)]

Key(r) == <<r.video_id, r.date>>

\* The order of sort_values(["video_id", "date"]).
RowLess(a, b) ==
    \/ StrLess(a.video_id, b.video_id)
    \/ a.video_id = b.video_id /\ a.date < b.date

\* Insert r into a sorted frame behind every row that is not greater: the
\* multi-column sort is stable.
InsertRow(sorted, r) ==
    LET n == Cardinality({i \in 1..Len(sorted) : ~RowLess(r, sorted[i])})
    IN SubSeq(sorted, 1, n) \o <<r>> \o SubSeq(sorted, n + 1, Len(sorted))

RECURSIVE sort_values(_)
sort_values(s) ==
    IF s = <<>> THEN <<>>
    ELSE InsertRow(sort_values(SubSeq(s, 1, Len(s) - 1)), s[Len(s)])

RECURSIVE drop_duplicates_first(_)
\* drop_duplicates with keep="first".
drop_duplicates_first(s) ==
    IF s = <<>> THEN <<>>
    ELSE LET init == drop_duplicates_first(SubSeq(s, 1, Len(s) - 1))
             r == s[Len(s)]
         IN IF \E i \in 1..Len(init) : Key(init[i]) = Key(r) THEN init
            ELSE Append(init, r)

\* No deduplication at all.
drop_duplicates_none(s) == s

RECURSIVE drop_duplicates(_)
\* drop_duplicates(subset=["video_id", "date"], keep="last")
drop_duplicates(s) ==
    IF s = <<>> THEN <<>>
    ELSE LET h == Head(s)
             t == Tail(s)
         IN IF \E i \in 1..Len(t) : Key(t[i]) = Key(h)
            THEN drop_duplicates(t)
            ELSE <<h>> \o drop_duplicates(t)

\* data/history.csv: missing, of size 0, a lone line break (what to_csv
\* writes for a frame without columns), or a header and rows.
File(st, rows) == [st |-> st, rows |-> rows]

\* DataFrame.to_csv(DATA_CSV, index=False)
to_csv(rows) ==
    IF rows = <<>> THEN File("nocols", <<>>) ELSE File("table", rows)

\* A merge that forgets the old table.
merged_overwrite(old, new) == new

\* pd.concat([old_df, new_df]) sorted and deduplicated.
merged_frame(old, new) == drop_duplicates(sort_values(old \o new))

\* -------------------------------------------------------------- app.py
\* Days a row of the dashboard's table, or a picked date, can name:
\* 1..MaxDashDay.
MaxDashDay == 4

\* pd.Timedelta(days=1) in seconds.
SecondsPerDay == 86400

\* The counter of the first video on day d in the dashboard's input
\* tables: one of two series, the second one the first one backwards.
RisingViews == <<100, 150, 140, 200>>
DashValues(d) ==
    LET k == ((d - 1) % Len(RisingViews)) + 1
    IN {RisingViews[k], RisingViews[Len(RisingViews) + 1 - k]}

\* A row of data/history.csv as the dashboard reads it.  A date cell is
\* <<d>>, or <<>> when it is missing or no date.
CsvRow(date, vid, views, channel) ==
    [date |-> date, video_id |-> vid, views |-> views,
     channel_title |-> channel]

\* pd.to_datetime(..., errors="coerce", utc=True): midnight UTC of the day
\* in seconds, NaT (<<>>) for a cell that is no date.
to_datetime(cell) ==
    IF cell = <<>> THEN <<>> ELSE <<cell[1] * SecondsPerDay>>

\* load_data: the table with its date column parsed.
load_data(cells) ==
    [i \in 1..Len(cells) |->
        CsvRow(to_datetime(cells[i].date), cells[i].video_id,
               cells[i].views, cells[i].channel_title)]

\* Timestamp.tz_convert("UTC").date()
date_of(ts) == ts \div SecondsPerDay

\* The order of a datetime column under sort_values: NaT sorts last.
DateLess(a, b) == a # <<>> /\ (b = <<>> \/ a[1] < b[1])

VideoDateLess(a, b) ==
    \/ a.video_id < b.video_id
    \/ a.video_id = b.video_id /\ DateLess(a.date, b.date)

InsertByDate(sorted, r) ==
    LET n == Cardinality({i \in 1..Len(sorted) :
                             ~DateLess(r.date, sorted[i].date)})
    IN SubSeq(sorted, 1, n) \o <<r>> \o SubSeq(sorted, n + 1, Len(sorted))

RECURSIVE sort_by_date(_)
\* sort_values("date")
sort_by_date(s) ==
    IF s = <<>> THEN <<>>
    ELSE InsertByDate(sort_by_date(SubSeq(s, 1, Len(s) - 1)), s[Len(s)])

InsertByVideoDate(sorted, r) ==
    LET n == Cardinality({i \in 1..Len(sorted) :
                             ~VideoDateLess(r, sorted[i])})
    IN SubSeq(sorted, 1, n) \o <<r>> \o SubSeq(sorted, n + 1, Len(sorted))

RECURSIVE sort_by_video_date(_)
\* sort_values(["video_id", "date"])
sort_by_video_date(s) ==
    IF s = <<>> THEN <<>>
    ELSE InsertByVideoDate(sort_by_video_date(SubSeq(s, 1, Len(s) - 1)),
                           s[Len(s)])

\* frame[frame["video_id"].isin(ids)]
RECURSIVE where_video(_, _)
where_video(frame, ids) ==
    IF frame = <<>> THEN <<>>
    ELSE LET init == where_video(SubSeq(frame, 1, Len(frame) - 1), ids)
             r == frame[Len(frame)]
         IN IF r.video_id \in ids THEN Append(init, r) ELSE init

\* (frame["date"] >= start_ts_utc) & (frame["date"] <= end_ts_utc): a
\* comparison with NaT is False.
in_range(r, start_ts, end_ts) ==
    r.date # <<>> /\ r.date[1] >= start_ts /\ r.date[1] <= end_ts

RECURSIVE where_range(_, _, _)
where_range(frame, start_ts, end_ts) ==
    IF frame = <<>> THEN <<>>
    ELSE LET init == where_range(SubSeq(frame, 1, Len(frame) - 1),
                                 start_ts, end_ts)
             r == frame[Len(frame)]
         IN IF in_range(r, start_ts, end_ts) THEN Append(init, r) ELSE init

VideoIds(frame) == {frame[i].video_id : i \in 1..Len(frame)}

MaxOf(S) == CHOOSE x \in S : \A y \in S : y <= x
MinOf(S) == CHOOSE x \in S : \A y \in S : x <= y

\* df.sort_values("date").groupby("video_id", as_index=False).tail(1): the
\* last row of each video in date order, in that order.
latest_of(frame) ==
    LET sorted == sort_by_date(frame)
        last(v) == MaxOf({i \in 1..Len(sorted) : sorted[i].video_id = v})
        keep == {last(v) : v \in VideoIds(sorted)}
        RECURSIVE pick(_)
        pick(n) == IF n = 0 THEN <<>>
                   ELSE IF n \in keep THEN Append(pick(n - 1), sorted[n])
                   ELSE pick(n - 1)
    IN pick(Len(sorted))

\* latest, or latest[latest["channel_title"] == sel_channel]
RECURSIVE filter_channel(_, _)
filter_channel(frame, channel) ==
    IF frame = <<>> THEN <<>>
    ELSE LET init == filter_channel(SubSeq(frame, 1, Len(frame) - 1),
                                    channel)
             r == frame[Len(frame)]
         IN IF channel = "All" \/ r.channel_title = channel
            THEN Append(init, r) ELSE init

Channels(frame) == {frame[i].channel_title : i \in 1..Len(frame)}

\* df["date"].min() / .max() as a calendar day; date.today() when every
\* date is NaT.
Days(frame) ==
    {date_of(frame[i].date[1]) :
        i \in {j \in 1..Len(frame) : frame[j].date # <<>>}}
min_date(frame, now) == IF Days(frame) = {} THEN now ELSE MinOf(Days(frame))
max_date(frame, now) == IF Days(frame) = {} THEN now ELSE MaxOf(Days(frame))

\* coerce_date_range: picked is the tuple st.date_input returned.
coerce_date_range(picked, fallback_start, fallback_end) ==
    LET s == IF Len(picked) = 2 \/ Len(picked) = 1 THEN picked[1]
             ELSE fallback_start
        e == IF Len(picked) = 2 THEN picked[2]
             ELSE IF Len(picked) = 1 THEN picked[1]
             ELSE fallback_end
    IN IF s > e THEN <<e, s>> ELSE <<s, e>>

\* start_ts_utc and end_ts_utc: the closed range [start 00:00:00, end
\* 23:59:59].
start_ts_utc(start) == start * SecondsPerDay
end_ts_utc(end) == end * SecondsPerDay + SecondsPerDay - 1

\* Series.diff(): NaN (<<>>) at the first row, else the difference to the
\* row before.
diff(frame) ==
    [i \in 1..Len(frame) |->
        IF i = 1 THEN <<>> ELSE <<frame[i].views - frame[i - 1].views>>]

\* groupby("video_id")[col].diff(): the difference to the previous row of
\* the same video, NaN at the first row of each video.
group_diff(frame) ==
    [i \in 1..Len(frame) |->
        LET before == {j \in 1..(i - 1) :
                          frame[j].video_id = frame[i].video_id}
        IN IF before = {} THEN <<>>
           ELSE <<frame[i].views - frame[MaxOf(before)].views>>]

\* .fillna(0)
fillna(x) == IF x = <<>> THEN 0 ELSE x[1]

\* No clamp: a negative difference stays.
clamp_off(v) == v

\* frame.loc[frame[col] < 0, col] = 0
clamp(v) == IF v < 0 THEN 0 ELSE v

WithValue(r, v) ==
    [date |-> r.date, video_id |-> r.video_id, views |-> r.views,
     channel_title |-> r.channel_title, value |-> v]

\* A sorted frame with its clamped per-video increments.
with_increments(frame) ==
    LET d == group_diff(frame)
    IN [i \in 1..Len(frame) |-> WithValue(frame[i], clamp(fillna(d[i])))]

RECURSIVE SumValues(_)
\* Series.sum()
SumValues(frame) ==
    IF frame = <<>> THEN 0
    ELSE frame[Len(frame)].value + SumValues(SubSeq(frame, 1, Len(frame) - 1))

\* Series.max()
MaxValue(frame) == MaxOf({frame[i].value : i \in 1..Len(frame)})

\* base_df: the full history of the selected videos with views_inc.
base_frame(frame, selected_ids) ==
    with_increments(sort_by_video_date(where_video(frame, selected_ids)))

\* The interval sum with the range cut before the differences are taken.
interval_sum_filter_first(frame, selected_ids, start_ts, end_ts) ==
    SumValues(with_increments(
        where_range(sort_by_video_date(where_video(frame, selected_ids)),
                    start_ts, end_ts)))

\* iv_views: the increments of base_df inside the range, summed.
interval_sum(frame, selected_ids, start_ts, end_ts) ==
    SumValues(where_range(base_frame(frame, selected_ids), start_ts, end_ts))

\* show_df_for_chart: the selected videos' rows inside the range.
show_frame(frame, selected_ids, start_ts, end_ts) ==
    where_range(where_video(frame, selected_ids), start_ts, end_ts)

\* vhist of one card: the video's rows in range by date, with value the
\* clamped difference (incremental) or the counter itself (cumulative).
card_series(show_df, vid, m) ==
    LET vhist == sort_by_date(where_video(show_df, {vid}))
        d == diff(vhist)
    IN [i \in 1..Len(vhist) |->
          WithValue(vhist[i],
                    IF m = "incremental" THEN clamp(fillna(d[i]))
                    ELSE vhist[i].views)]

\* cmp: the compared videos' rows in range, sorted, with value.
compare_frame(show_df, compare_ids, m) ==
    LET cmp == sort_by_video_date(where_video(show_df, compare_ids))
        d == group_diff(cmp)
    IN [i \in 1..Len(cmp) |->
          WithValue(cmp[i],
                    IF m = "incremental" THEN clamp(fillna(d[i]))
                    ELSE cmp[i].views)]

\* One row of the comparison table: the loop over cmp.groupby("video_id").
summary_row(cmp, vid, m) ==
    LET g == sort_by_date(where_video(cmp, {vid}))
    IN [first_dt |-> date_of(MinOf({g[i].date[1] : i \in 1..Len(g)})),
        last_dt |-> date_of(MaxOf({g[i].date[1] : i \in 1..Len(g)})),
        points_cnt |-> Len(g),
        metric_val |-> IF m = "incremental" THEN SumValues(g)
                       ELSE g[Len(g)].value,
        peak_val |-> MaxValue(g)]

summary_rows(cmp, m) ==
    [vid \in VideoIds(cmp) |-> summary_row(cmp, vid, m)]

\* ------------------------------------------- the dashboard's input tables
\* The first video's rows: any dated rows (f: day -> <<>> or <<views>>),
\* latest day first, after an undated row when u holds.
RECURSIVE dated_rows(_, _, _, _)
dated_rows(f, vid, channel, d) ==
    IF d = 0 THEN <<>>
    ELSE dated_rows(f, vid, channel, d - 1) \o
         (IF f[d] = <<>> THEN <<>>
          ELSE <<CsvRow(<<d>>, vid, f[d][1], channel)>>)

RECURSIVE reverse(_)
reverse(s) == IF s = <<>> THEN <<>> ELSE Append(reverse(Tail(s)), Head(s))

RECURSIVE sub_sequences(_)
sub_sequences(s) ==
    IF s = <<>> THEN {<<>>}
    ELSE LET rest == sub_sequences(Tail(s))
         IN rest \cup {<<Head(s)>> \o t : t \in rest}

\* The rows the second video can have.
SecondVideoRows ==
    << CsvRow(<<3>>, 2, 100, "B"), CsvRow(<<>>, 2, 200, "B"),
       CsvRow(<<2>>, 2, 150, "B") >>

DashCells(d) == {<<>>} \cup {<<v>> : v \in DashValues(d)}

DashColumns ==
    {f \in [1..MaxDashDay -> UNION {DashCells(d) : d \in 1..MaxDashDay}] :
        \A d \in 1..MaxDashDay : f[d] \in DashCells(d)}

DashTables ==
    { y \o reverse(dated_rows(f, 1, "A", MaxDashDay)) :
        y \in sub_sequences(SecondVideoRows), f \in DashColumns }

\* What st.date_input can return: no, one or two dates.
Picks ==
    {<<>>} \cup {<<d>> : d \in 1..MaxDashDay} \cup
    {<<s, e>> : s \in 1..MaxDashDay, e \in 1..MaxDashDay}

VARIABLES
    inputExists,  \* os.path.exists(INPUT_CSV)
    inputCsv,     \* inputs/videos.csv: header line and rows
    file,         \* data/history.csv
    today,        \* today_la_str()
    pc,           \* idle | fetching | merge | done | failed
    runs,         \* runs started
    batches,      \* chunk(video_ids, 25)
    batchIdx,     \* the batch get_video_items is fetching
    attempt,      \* the position in backoff of the next request
    all_rows,     \* all_rows of main
    resp,         \* the items of the last successful response
    outcomes,     \* outcomes of the requests of the batch being fetched
    delays,       \* the delay taken before each of these requests
    writes,       \* to_csv calls in this run
    fileAtStart,  \* data/history.csv when the run started
    \* the dashboard
    csv,          \* data/history.csv as the dashboard finds it
    pcD,          \* start | stopped | loaded | rendered
    df,           \* load_data()
    latest,       \* the latest row of each video
    sel_channel,  \* the channel selectbox
    mode,         \* the mode radio: cumulative | incremental
    start_date,   \* the picked range, coerced
    end_date,
    base_df,      \* the selected videos' history with views_inc
    iv_views,     \* the interval KPI of views
    cards,        \* the series charted on each video's card
    summary       \* the rows of the comparison table

collectorVars ==
    <<inputExists, inputCsv, file, today, pc, runs, batches, batchIdx,
      attempt, all_rows, resp, outcomes, delays, writes,
      fileAtStart>>

dashVars ==
    <<csv, pcD, df, latest, sel_channel, mode, start_date, end_date,
      base_df, iv_views, cards, summary>>

vars == <<collectorVars, dashVars>>

Transient == {"timeout", "connection", "other"}

\* Nothing of the dashboard has run.
DashIdle ==
    /\ pcD = "start"
    /\ df = <<>>
    /\ latest = <<>>
    /\ sel_channel = "All"
    /\ mode = "cumulative"
    /\ start_date = 1
    /\ end_date = 1
    /\ base_df = <<>>
    /\ iv_views = 0
    /\ cards = <<>>
    /\ summary = <<>>

\* No collector run has started.
CollectorIdle ==
    /\ today = 1
    /\ pc = "idle"
    /\ runs = 0
    /\ batches = <<>>
    /\ batchIdx = 1
    /\ attempt = 1
    /\ all_rows = <<>>
    /\ resp = <<>>
    /\ outcomes = <<>>
    /\ delays = <<>>
    /\ writes = 0
    /\ fileAtStart = file

\* The collector before its first run, beside a dashboard with no table.
Init ==
    /\ inputExists \in BOOLEAN
    /\ inputCsv \in InputChoices
    /\ file \in {File("missing", <<>>), File("empty", <<>>)}
    /\ CollectorIdle
    /\ csv = <<>>
    /\ DashIdle

\* The collector's start alone, on any of the input files.
ReadInit ==
    /\ inputExists \in BOOLEAN
    /\ inputCsv \in IF inputExists THEN ReadInputs(MaxPieces, MaxRefs)
                    ELSE {Csv(<<>>, <<>>)}
    /\ file = File("missing", <<>>)
    /\ CollectorIdle
    /\ csv = <<>>
    /\ DashIdle

\* The calendar day changes in America/Los_Angeles.
Midnight ==
    /\ today < MaxDay
    /\ today' = today + 1
    /\ UNCHANGED <<inputExists, inputCsv, file, pc, runs, batches, batchIdx,
                   attempt, all_rows, resp, outcomes, delays, writes, fileAtStart>>
    /\ UNCHANGED dashVars

\* python fetch_stats.py up to the first request: read_video_ids, which
\* exits on a missing file and raises on one without a line, and the early
\* return of main.
StartRun ==
    /\ pc \in {"idle", "done", "failed"}
    /\ runs < MaxRuns
    /\ runs' = runs + 1
    /\ fileAtStart' = file
    /\ all_rows' = <<>>
    /\ resp' = <<>>
    /\ outcomes' = <<>>
    /\ delays' = <<>>
    /\ writes' = 0
    /\ batchIdx' = 1
    /\ attempt' = 1
    /\ IF ~inputExists \/ inputCsv.columns = <<>>
       THEN /\ pc' = "failed"
            /\ batches' = <<>>
       ELSE LET video_ids == read_video_ids(inputCsv)
            IN /\ batches' = chunk(video_ids, BatchSize)
               /\ pc' = IF video_ids = <<>> THEN "done" ELSE "fetching"
    /\ UNCHANGED <<inputExists, inputCsv, file, today>>
    /\ UNCHANGED dashVars

\* The bookkeeping of one requests.get of get_video_items.
Issue(outcome) ==
    /\ pc = "fetching"
    /\ delays' = IF attempt = 1 THEN <<backoff[attempt]>>
                 ELSE Append(delays, backoff[attempt])
    /\ outcomes' = IF attempt = 1 THEN <<outcome>>
                   ELSE Append(outcomes, outcome)

\* A successful request that also saves the rows fetched so far.
RequestOk_flush ==
    /\ Issue("ok")
    /\ \E items \in Responses(batches[batchIdx]) :
          /\ resp' = items
          /\ all_rows' = all_rows \o rows_of(items, today)
    /\ file' = to_csv(file.rows \o all_rows')
    /\ batchIdx' = batchIdx + 1
    /\ attempt' = 1
    /\ pc' = IF batchIdx = Len(batches) THEN "merge" ELSE "fetching"
    /\ UNCHANGED <<inputExists, inputCsv, today, runs, batches, writes, fileAtStart>>
    /\ UNCHANGED dashVars

\* A request answered 2xx: the items become rows; the next batch follows,
\* or the merge after the last one.
RequestOk ==
    /\ Issue("ok")
    /\ \E items \in Responses(batches[batchIdx]) :
          /\ resp' = items
          /\ all_rows' = all_rows \o rows_of(items, today)
    /\ batchIdx' = batchIdx + 1
    /\ attempt' = 1
    /\ pc' = IF batchIdx = Len(batches) THEN "merge" ELSE "fetching"
    /\ UNCHANGED <<inputExists, inputCsv, file, today, runs, batches, writes, fileAtStart>>
    /\ UNCHANGED dashVars

\* A timeout, a connection error or any other exception: the next entry of
\* backoff, and raise last_err after the last one.
RequestTransient ==
    /\ \E kind \in Transient : Issue(kind)
    /\ IF attempt < Len(backoff)
       THEN /\ attempt' = attempt + 1
            /\ pc' = pc
       ELSE /\ attempt' = attempt
            /\ pc' = "failed"
    /\ UNCHANGED <<inputExists, inputCsv, file, today, runs, batches,
                   batchIdx, all_rows, resp, writes, fileAtStart>>
    /\ UNCHANGED dashVars

\* A 4xx/5xx answer handled like a transient failure.
RequestHTTPError_retry ==
    /\ Issue("http")
    /\ IF attempt < Len(backoff)
       THEN /\ attempt' = attempt + 1
            /\ pc' = pc
       ELSE /\ attempt' = attempt
            /\ pc' = "failed"
    /\ UNCHANGED <<inputExists, inputCsv, file, today, runs, batches,
                   batchIdx, all_rows, resp, writes, fileAtStart>>
    /\ UNCHANGED dashVars

\* raise_for_status raised HTTPError: re-raised, and __main__ exits 1.
RequestHTTPError ==
    /\ Issue("http")
    /\ pc' = "failed"
    /\ UNCHANGED <<inputExists, inputCsv, file, today, runs, batches,
                   batchIdx, attempt, all_rows, resp, writes, fileAtStart>>
    /\ UNCHANGED dashVars

\* The end of main: new_df, the merge with the file and to_csv.  read_csv
\* raises on a file without columns, and so does sort_values on a frame
\* without them.
MergeAndWrite ==
    /\ pc = "merge"
    /\ IF file.st \in {"table", "nocols"}
       THEN IF file.st = "nocols"
            THEN /\ pc' = "failed"
                 /\ UNCHANGED <<file, writes>>
            ELSE /\ file' = to_csv(merged_frame(file.rows, all_rows))
                 /\ writes' = writes + 1
                 /\ pc' = "done"
       ELSE /\ file' = to_csv(all_rows)
            /\ writes' = writes + 1
            /\ pc' = "done"
    /\ outcomes' = <<>>
    /\ delays' = <<>>
    /\ UNCHANGED <<inputExists, inputCsv, today, runs, batches, batchIdx,
                   attempt, all_rows, resp, fileAtStart>>
    /\ UNCHANGED dashVars

Next ==
    \/ Midnight
    \/ StartRun
    \/ RequestOk
    \/ RequestTransient
    \/ RequestHTTPError
    \/ MergeAndWrite

Spec == Init /\ [][Next]_vars

ReadNext == StartRun

ReadSpec == ReadInit /\ [][ReadNext]_vars

\* ------------------------------------------------- the dashboard's script
\* The dashboard before its first run, over some table; no collector runs.
DashInit ==
    /\ inputExists = FALSE
    /\ inputCsv = Csv(<<>>, <<>>)
    /\ file = File("missing", <<>>)
    /\ CollectorIdle
    /\ csv \in DashTables
    /\ DashIdle

\* The script down to latest: load_data, st.stop() on an empty table, and
\* the latest row of each video.
LoadData ==
    /\ pcD = "start"
    /\ df' = load_data(csv)
    /\ latest' = latest_of(df')
    /\ pcD' = IF df' = <<>> THEN "stopped" ELSE "loaded"
    /\ UNCHANGED <<csv, sel_channel, mode, start_date, end_date, base_df,
                   iv_views, cards, summary>>
    /\ UNCHANGED collectorVars

\* One pass of the script over the cached table with the widgets' values:
\* the sidebar, the interval KPI, the cards and the comparison table.  The
\* metric is views and every selected video is compared (the multiselect's
\* default); the sort order of the cards changes no value.
Render ==
    /\ pcD = "loaded"
    /\ \E channel \in {"All"} \cup Channels(latest),
          m \in {"cumulative", "incremental"},
          picked \in Picks,
          now \in IF Days(df) = {} THEN 1..MaxDashDay ELSE {1} :
          LET range == coerce_date_range(picked, min_date(df, now),
                                         max_date(df, now))
              filtered_latest == filter_channel(latest, channel)
              selected_ids == VideoIds(filtered_latest)
              start_ts == start_ts_utc(range[1])
              end_ts == end_ts_utc(range[2])
              show_df == show_frame(df, selected_ids, start_ts, end_ts)
              cmp == compare_frame(show_df, selected_ids, m)
          IN /\ sel_channel' = channel
             /\ mode' = m
             /\ start_date' = range[1]
             /\ end_date' = range[2]
             /\ base_df' = base_frame(df, selected_ids)
             /\ iv_views' = interval_sum(df, selected_ids, start_ts, end_ts)
             /\ cards' = [vid \in selected_ids |->
                             card_series(show_df, vid, m)]
             /\ summary' = summary_rows(cmp, m)
    /\ pcD' = "rendered"
    /\ UNCHANGED <<csv, df, latest>>
    /\ UNCHANGED collectorVars

\* A widget changed or the page refreshed: the script starts over, its
\* variables gone and the table still cached.
Rerun ==
    /\ pcD = "rendered"
    /\ pcD' = "loaded"
    /\ sel_channel' = "All"
    /\ mode' = "cumulative"
    /\ start_date' = 1
    /\ end_date' = 1
    /\ base_df' = <<>>
    /\ iv_views' = 0
    /\ cards' = <<>>
    /\ summary' = <<>>
    /\ UNCHANGED <<csv, df, latest>>
    /\ UNCHANGED collectorVars

DashNext ==
    \/ LoadData
    \/ Render
    \/ Rerun

DashSpec == DashInit /\ [][DashNext]_vars

\* ---------------------------------------------- properties: the collector
Keys(rows) == {Key(rows[i]) : i \in 1..Len(rows)}

RowsWithKey(rows, k) == {j \in 1..Len(rows) : Key(rows[j]) = k}

NoDuplicateKeys(rows) ==
    \A i, j \in 1..Len(rows) : Key(rows[i]) = Key(rows[j]) => i = j

\* A run has completed with its write.
RunWrote == pc = "done" /\ writes = 1

\* C1: the persisted table never holds two rows with the same (video_id,
\* date), and once a run has completed every (video_id, date) it fetched
\* has exactly one row in the table.
C1_OneRowPerVideoDay ==
    /\ NoDuplicateKeys(file.rows)
    /\ RunWrote =>
          \A i \in 1..Len(all_rows) :
              Cardinality(RowsWithKey(file.rows, Key(all_rows[i]))) = 1

\* A second run of the same day has completed after fetching exactly the
\* rows the first run wrote.
C1_Witness ==
    /\ RunWrote
    /\ runs = 2
    /\ fileAtStart.st = "table"
    /\ fileAtStart.rows = all_rows
    /\ Len(all_rows) > 1

\* C2: once a run has completed, every row it fetched is in the table, and
\* any table row of the same (video_id, date) carries the fetched values:
\* values an earlier run of the day wrote for that pair are gone.
C2_LaterRunWins ==
    RunWrote =>
        \A i \in 1..Len(all_rows) :
            /\ \E j \in 1..Len(file.rows) : file.rows[j] = all_rows[i]
            /\ \A j \in RowsWithKey(file.rows, Key(all_rows[i])) :
                  file.rows[j].views = all_rows[i].views

\* A run has completed that fetched, for a (video_id, date) already in the
\* table, a value other than the one the table held.
C2_Witness ==
    /\ RunWrote
    /\ \E i \in 1..Len(all_rows) :
          \E j \in RowsWithKey(fileAtStart.rows, Key(all_rows[i])) :
              fileAtStart.rows[j].views # all_rows[i].views

\* C3: a run writes the table at most once and only once every batch has
\* been fetched; while it fetches, and when it has failed, the file is
\* what it was when the run started.
C3_FailedRunWritesNothing ==
    /\ writes <= 1
    /\ pc \in {"fetching", "merge", "failed"} =>
          file = fileAtStart /\ writes = 0
    /\ writes = 1 => pc = "done" /\ batchIdx = Len(batches) + 1

\* A run over an existing table failed in a later batch, after a batch had
\* been fetched.
C3_Witness ==
    /\ pc = "failed"
    /\ fileAtStart.st = "table"
    /\ all_rows # <<>>
    /\ outcomes # <<>>

\* C4: the table of a run's start is kept by the run: each of its (video_id,
\* date) keys is still in the table and the table has no fewer rows.
C4_TableOnlyGrows ==
    /\ Keys(fileAtStart.rows) \subseteq Keys(file.rows)
    /\ Len(file.rows) >= Len(fileAtStart.rows)

\* A run has completed over a table and added rows to it.
C4_Witness ==
    /\ RunWrote
    /\ fileAtStart.st = "table"
    /\ Len(file.rows) > Len(fileAtStart.rows)

\* C5: a 4xx/5xx answer is the last request of the run: the run has failed
\* with it, no request follows it in this batch or a later one, and
\* nothing has been written.
C5_HTTPErrorIsFatal ==
    \A i \in 1..Len(outcomes) :
        outcomes[i] = "http" =>
            /\ i = Len(outcomes)
            /\ pc = "failed"
            /\ file = fileAtStart

\* The 4xx/5xx answer came on the second attempt of the first batch, with
\* a batch still to fetch.
C5_Witness ==
    /\ Len(outcomes) = 2
    /\ outcomes[2] = "http"
    /\ batchIdx = 1
    /\ Len(batches) = 2

\* C6: a batch takes at most 3 requests, after delays of 0, 2 and 5
\* seconds; only a failed attempt is followed by another one; a successful
\* answer ends the batch and its items are the rows added; three failures
\* fail the run.
C6_RetrySchedule ==
    /\ Len(outcomes) <= 3
    /\ delays = SubSeq(<<0, 2, 5>>, 1, Len(outcomes))
    /\ \A i \in 1..(Len(outcomes) - 1) : outcomes[i] \in Transient
    /\ (Len(outcomes) = 3 /\ outcomes[3] \in Transient) => pc = "failed"
    /\ (outcomes # <<>> /\ outcomes[Len(outcomes)] = "ok") =>
          /\ attempt = 1
          /\ pc \in {"fetching", "merge"}
          /\ Len(all_rows) >= Len(resp)
          /\ \A k \in 1..Len(resp) :
                LET r == all_rows[Len(all_rows) - Len(resp) + k]
                IN r.video_id = resp[k].id /\ r.views = to_int(resp[k].viewCount)
    /\ (outcomes # <<>> /\ outcomes[Len(outcomes)] \in Transient
          /\ Len(outcomes) < 3) => pc = "fetching"

\* The third attempt of a batch succeeded, after a timeout and a
\* connection error, and returned items.
C6_Witness ==
    /\ outcomes = <<"timeout", "connection", "ok">>
    /\ delays = <<0, 2, 5>>
    /\ resp # <<>>

\* The references of the input file as written: the cells of the column
\* named video, or else of the first column.
InputReferences ==
    LET named == {k \in 1..Len(inputCsv.columns) :
                     inputCsv.columns[k] = VideoName}
        at == IF named = {} THEN 1 ELSE CHOOSE k \in named : TRUE
    IN [i \in 1..Len(inputCsv.rows) |-> inputCsv.rows[i][at]]

\* The identifiers read_video_ids returned to main, batch after batch.
ReturnedIds == Concat(batches)

\* The first reference that resolves to identifier x.
FirstReference(x) ==
    CHOOSE r \in 1..Len(InputReferences) :
        /\ extract_video_id(InputReferences[r]) = <<x>>
        /\ \A q \in 1..(r - 1) : extract_video_id(InputReferences[q]) # <<x>>

\* C11: what read_video_ids returns is the identifiers the references of
\* the input file resolve to: every reference that resolves has its
\* identifier in the list, the list has nothing else and no identifier
\* twice, and the identifiers stand in the order of their first references.
C11_ResolvedInInputOrder ==
    pc \in {"fetching", "done"} =>
        LET ids == ReturnedIds
            refs == InputReferences
        IN /\ \A r \in 1..Len(refs) :
                  extract_video_id(refs[r]) # <<>> =>
                      \E i \in 1..Len(ids) : extract_video_id(refs[r]) = <<ids[i]>>
           /\ \A i \in 1..Len(ids) :
                  \E r \in 1..Len(refs) : extract_video_id(refs[r]) = <<ids[i]>>
           /\ \A i, j \in 1..Len(ids) :
                  i < j => /\ ids[i] # ids[j]
                           /\ FirstReference(ids[i]) < FirstReference(ids[j])

\* ---------------------------------------------- properties: the dashboard
\* The properties speak of the table as it is on file (csv) and of the
\* picked days; the script's frames hold timestamps.

\* The dated snapshots of the same video before snapshot i.
PriorSnapshots(i) ==
    {j \in 1..Len(csv) :
        /\ csv[j].video_id = csv[i].video_id
        /\ csv[j].date # <<>>
        /\ csv[j].date[1] < csv[i].date[1]}

PreviousSnapshot(i) ==
    CHOOSE j \in PriorSnapshots(i) :
        \A k \in PriorSnapshots(i) : csv[k].date[1] <= csv[j].date[1]

\* The clamped daily delta of dated snapshot i over the video's full
\* history: 0 for the video's first snapshot.
DailyDelta(i) ==
    IF PriorSnapshots(i) = {} THEN 0
    ELSE LET d == csv[i].views - csv[PreviousSnapshot(i)].views
         IN IF d > 0 THEN d ELSE 0

\* The snapshots of video v whose day lies in the picked range.
InRangeSnapshots(v) ==
    {i \in 1..Len(csv) :
        /\ csv[i].video_id = v
        /\ csv[i].date # <<>>
        /\ start_date <= csv[i].date[1]
        /\ csv[i].date[1] <= end_date}

RECURSIVE SumDeltas(_)
SumDeltas(S) ==
    IF S = {} THEN 0
    ELSE LET i == CHOOSE x \in S : TRUE
         IN DailyDelta(i) + SumDeltas(S \ {i})

\* The videos the channel filter selects.
SelectedVideos ==
    {csv[i].video_id :
        i \in {j \in 1..Len(csv) :
                  sel_channel = "All" \/ csv[j].channel_title = sel_channel}}

RECURSIVE SumOverVideos(_)
SumOverVideos(V) ==
    IF V = {} THEN 0
    ELSE LET v == CHOOSE x \in V : TRUE
         IN SumDeltas(InRangeSnapshots(v)) + SumOverVideos(V \ {v})

\* The first video has the snapshots day1:100, day2:150, day3:140,
\* day4:200 and the range [day2, day4] is picked in incremental mode.
ExampleRendered ==
    /\ pcD = "rendered"
    /\ mode = "incremental"
    /\ sel_channel = "All"
    /\ start_date = 2
    /\ end_date = 4
    /\ \A d \in 1..4 :
          \E i \in 1..Len(csv) :
              /\ csv[i].video_id = 1
              /\ csv[i].date = <<d>>
              /\ csv[i].views = <<100, 150, 140, 200>>[d]

\* C7: in incremental mode the total of a video in the comparison table is
\* the sum of the clamped daily deltas of its days in range, the first of
\* them taken against the video's last snapshot before the range, and the
\* peak is the largest of these deltas; 110 and 60 in the example.
C7_SummaryCountsFromPriorSnapshot ==
    (pcD = "rendered" /\ mode = "incremental") =>
        /\ \A v \in DOMAIN summary :
              /\ summary[v].metric_val = SumDeltas(InRangeSnapshots(v))
              /\ summary[v].peak_val =
                    MaxOf({DailyDelta(i) : i \in InRangeSnapshots(v)})
        /\ ExampleRendered =>
              summary[1].metric_val = 110 /\ summary[1].peak_val = 60

\* The rows of video v in a frame, in the frame's order.
RowsOf(frame, v) == where_video(frame, {v})

PositiveOrZero(n) == IF n > 0 THEN n ELSE 0

\* A series of increments over a video's series: as long as the series, 0
\* at the first element, and the difference to the element before, or 0
\* when that is negative, at every later one.
IsIncrementSeries(s) ==
    \A i \in 1..Len(s) :
        /\ s[i].value >= 0
        /\ s[i].value = IF i = 1 THEN 0
                        ELSE PositiveOrZero(s[i].views - s[i - 1].views)

\* A series in date order, undated rows last.
InDateOrder(s) ==
    \A i \in 1..(Len(s) - 1) :
        s[i].date # <<>> /\
        (s[i + 1].date = <<>> \/ s[i].date[1] < s[i + 1].date[1])

\* C8: the increments the script computes for a video, over its full
\* history (base_df) and over the rows of its card (vhist, incremental
\* mode), are in date order, one per snapshot of the video, 0 at the first
\* snapshot and max(0, value[i] - value[i-1]) after it.
C8_IncrementSeries ==
    pcD = "rendered" =>
        /\ \A v \in SelectedVideos :
              LET s == RowsOf(base_df, v)
              IN /\ Len(s) = Cardinality({i \in 1..Len(csv) :
                                             csv[i].video_id = v})
                 /\ InDateOrder(s)
                 /\ IsIncrementSeries(s)
        /\ Len(base_df) = Cardinality({i \in 1..Len(csv) :
                                         csv[i].video_id \in SelectedVideos})
        /\ mode = "incremental" =>
              /\ DOMAIN cards = SelectedVideos
              /\ \A v \in DOMAIN cards :
                    /\ Len(cards[v]) = Cardinality(InRangeSnapshots(v))
                    /\ InDateOrder(cards[v])
                    /\ IsIncrementSeries(cards[v])

\* A counter went down between two snapshots of a video, inside the picked
\* range, and incremental mode is on.
C8_Witness ==
    /\ pcD = "rendered"
    /\ mode = "incremental"
    /\ \E v \in DOMAIN cards :
          \E i \in 2..Len(cards[v]) :
              cards[v][i].views < cards[v][i - 1].views
    /\ \E i \in 2..Len(base_df) :
          /\ base_df[i].video_id = base_df[i - 1].video_id
          /\ base_df[i].views < base_df[i - 1].views

\* C9: the interval KPI is the sum, over the selected videos, of the
\* clamped daily deltas of the days in the picked range, each delta taken
\* over the video's full history.
C9_IntervalKpi ==
    pcD = "rendered" => iv_views = SumOverVideos(SelectedVideos)

\* Both videos are selected, and the first day in range of one of them
\* gained views over a snapshot that lies before the range.
C9_Witness ==
    /\ pcD = "rendered"
    /\ sel_channel = "All"
    /\ Cardinality(SelectedVideos) = 2
    /\ \E i \in 1..Len(csv) :
          /\ i \in InRangeSnapshots(csv[i].video_id)
          /\ PriorSnapshots(i) # {}
          /\ csv[PreviousSnapshot(i)].date[1] < start_date
          /\ DailyDelta(i) > 0

\* The dated snapshots of video v.
DatedSnapshots(v) ==
    {i \in 1..Len(csv) : csv[i].video_id = v /\ csv[i].date # <<>>}

\* C10: the latest-snapshot view has exactly one row per video of the
\* table, and for a video with dated rows it is the row of its greatest
\* date, also when other rows of the video have no date.
C10_LatestIsMaxDate ==
    pcD \in {"loaded", "rendered"} =>
        \A v \in {csv[i].video_id : i \in 1..Len(csv)} :
            /\ Len(RowsOf(latest, v)) = 1
            /\ DatedSnapshots(v) # {} =>
                  LET r == RowsOf(latest, v)[1]
                      top == CHOOSE i \in DatedSnapshots(v) :
                                \A k \in DatedSnapshots(v) :
                                    csv[k].date[1] <= csv[i].date[1]
                  IN /\ r.date = <<csv[top].date[1] * SecondsPerDay>>
                     /\ r.views = csv[top].views

====
